---- MODULE Spec2Model ----
(***************************************************************************)
(* Model of main.py, the orchestration of the LinkedIn hiring-posts        *)
(* scraper: argument/config merging, the credential precondition, the      *)
(* launch of the persistent browser context, and the try/except/finally    *)
(* block that drives search_linkedin_posts, scrape_linkedin_posts and      *)
(* save_session and closes the context.                                    *)
(*                                                                         *)
(* Each run of main() is a process p.  Every call main() makes is split    *)
(* into its call and its outcome (return, raise, interrupt), and every     *)
(* such event is appended to log[p], the observable history of the run.    *)
(***************************************************************************)
EXTENDS Integers, Sequences, FiniteSets

\* ------------------------------------------------------------------ bounds
\* --max-results values tried on the command line: -MaxCli .. MaxCli
MaxCli == 1
\* max_results values tried in config.json: -1 .. MaxCfg
MaxCfg == 1
\* longest URL list search_linkedin_posts returns in the model
MaxUrls == 2

\* ------------------------------------------------------- program constants
\* argparse default of --max-results
ArgDefaultMaxResults == 50
\* default_config["max_results"]
ConfigDefaultMaxResults == 50
\* sys.exit(1)
ExitFailure == 1
\* status of a run whose main() returns
ExitSuccess == 0

\* the runs of main(): two, so that two runs can meet on one profile
Procs == {1, 2}

\* os.getenv() of an unset variable
None == "<None>"
\* what os.getenv() can give for a credential variable
EnvValues == {None, "", "secret"}

\* the keys of COUNTRIES
CountryKeys == {"india", "usa"}

\* COUNTRIES[key]: the fields main() reads that matter to control flow
COUNTRIES ==
  [c \in CountryKeys |->
     IF c = "india"
       THEN [session_dir |-> "browser_session_india", linkedin_subdomain |-> "in",
             email_env |-> "LINKEDIN_EMAIL", password_env |-> "LINKEDIN_PASSWORD"]
       ELSE [session_dir |-> "browser_session_usa", linkedin_subdomain |-> "www",
             email_env |-> "LINKEDIN_EMAIL_USA", password_env |-> "LINKEDIN_PASSWORD_USA"]]

\* post URLs the search surface can show
AllUrls == {"post-a", "post-b"}

\* an absent option or config entry is <<>>, a given one is <<n>>
CliChoices == {<<>>} \cup {<<n>> : n \in (-MaxCli)..MaxCli}
CfgChoices == {<<>>} \cup {<<n>> : n \in (-1)..MaxCfg}

\* lists over a pool of URLs, up to MaxUrls long
UrlLists(pool) == UNION {[1..n -> pool] : n \in 0..MaxUrls}

VARIABLES
  pc,          \* where each run is in main()
  argv,        \* command line: [max_results, country]
  environ,     \* the credential variables of the selected profile: [email, password]
  configFile,  \* max_results entry of config.json
  surface,     \* URLs the search surface can show to this run
  config,      \* config["max_results"] after load_config and the CLI override
  post_urls,   \* value bound to post_urls
  searchArgs,  \* arguments of the search_linkedin_posts call
  scrapeArgs,  \* arguments of the scrape_linkedin_posts call
  raised,      \* exception in flight
  live,        \* the run holds a launched persistent context
  exitStatus,  \* process exit status, -1 while running
  log          \* history of the run's calls and their outcomes

vars == <<pc, argv, environ, configFile, surface, config, post_urls,
          searchArgs, scrapeArgs, raised, live, exitStatus, log>>

inputs == <<argv, environ, configFile, surface>>

\* ----------------------------------------------------------------- helpers
Has(p, e) == \E i \in 1..Len(log[p]) : log[p][i] = e
Count(p, e) == Cardinality({i \in 1..Len(log[p]) : log[p][i] = e})
\* every e2 in the history comes after some e1
Precedes(p, e1, e2) ==
  \A i \in 1..Len(log[p]) :
     log[p][i] = e2 => \E j \in 1..(i - 1) : log[p][j] = e1

Emit(p, e) == log' = [log EXCEPT ![p] = Append(@, e)]
Goto(p, l) == pc' = [pc EXCEPT ![p] = l]

\* ------------------------------------------------- pure parts of main()
\* load_config()["max_results"]: the default, updated by config.json
LoadConfig(file) == IF file = <<>> THEN ConfigDefaultMaxResults ELSE file[1]

\* args.max_results as argparse delivers it
ArgsMaxResults(cli) == IF cli = <<>> THEN ArgDefaultMaxResults ELSE cli[1]

\* "if args.max_results: config['max_results'] = args.max_results"
OverrideConfig(loaded, args_max) == IF args_max # 0 THEN args_max ELSE loaded

\* truth value of an os.getenv() result
Truthy(v) == v # None /\ v # ""

MissingCredentialsBoth(email, password) == ~Truthy(email) /\ ~Truthy(password)

\* "not email or not password"
MissingCredentials(email, password) == ~Truthy(email) \/ ~Truthy(password)

NoPostUrlsUnchecked(urls) == FALSE

\* "not post_urls"
NoPostUrls(urls) == Len(urls) = 0

\* exit status of the process when main() is left with exception r in flight
ExitStatusOf(r) == IF r = "none" THEN ExitSuccess ELSE ExitFailure

\* COUNTRIES[args.country]["session_dir"]
SessionDir(p) == COUNTRIES[argv[p].country].session_dir

\* the browser engine's single-writer rule on a profile directory: the
\* directory of run p is held by another run's live context
ProfileLocked(p) == \E q \in Procs \ {p} : live[q] /\ SessionDir(q) = SessionDir(p)

\* an exception leaves main() outside the try block: the with-block stops
\* playwright (ending any context) and the interpreter exits
Uncaught(p, event) ==
  /\ Emit(p, event)
  /\ live' = [live EXCEPT ![p] = FALSE]
  /\ exitStatus' = [exitStatus EXCEPT ![p] = ExitStatusOf("Exception")]
  /\ Goto(p, "exited")
  /\ UNCHANGED <<inputs, config, post_urls, searchArgs, scrapeArgs, raised>>

\* ---------------------------------------------------------------- actions
\* parse_args(), load_config() and the CLI override
ParseArgs(p) ==
  /\ pc[p] = "parse"
  /\ config' = [config EXCEPT ![p] =
        OverrideConfig(LoadConfig(configFile[p]), ArgsMaxResults(argv[p].max_results))]
  /\ Goto(p, "creds")
  /\ UNCHANGED <<inputs, post_urls, searchArgs, scrapeArgs, raised, live, exitStatus, log>>

\* credentials missing: message and sys.exit(1)
CredentialsMissing(p) ==
  /\ pc[p] = "creds"
  /\ MissingCredentials(environ[p].email, environ[p].password)
  /\ Emit(p, "credentials.missing")
  /\ exitStatus' = [exitStatus EXCEPT ![p] = ExitFailure]
  /\ Goto(p, "exited")
  /\ UNCHANGED <<inputs, config, post_urls, searchArgs, scrapeArgs, raised, live>>

CredentialsPresent(p) ==
  /\ pc[p] = "creds"
  /\ ~MissingCredentials(environ[p].email, environ[p].password)
  /\ Goto(p, "playwright")
  /\ UNCHANGED <<inputs, config, post_urls, searchArgs, scrapeArgs, raised, live,
                 exitStatus, log>>

\* "with sync_playwright() as p:" and the session directory
StartPlaywright(p) ==
  /\ pc[p] = "playwright"
  /\ Emit(p, "playwright.start")
  /\ Goto(p, "launch")
  /\ UNCHANGED <<inputs, config, post_urls, searchArgs, scrapeArgs, raised, live, exitStatus>>

StartPlaywrightRaise(p) ==
  /\ pc[p] = "playwright"
  /\ Uncaught(p, "playwright.raise")

\* p.chromium.launch_persistent_context(user_data_dir=session_path, ...)
LaunchCall(p) ==
  /\ pc[p] = "launch"
  /\ Emit(p, "launch.call")
  /\ Goto(p, "in_launch")
  /\ UNCHANGED <<inputs, config, post_urls, searchArgs, scrapeArgs, raised, live, exitStatus>>

LaunchOk(p) ==
  /\ pc[p] = "in_launch"
  /\ ~ProfileLocked(p)
  /\ live' = [live EXCEPT ![p] = TRUE]
  /\ Emit(p, "launch.ok")
  /\ Goto(p, "headers")
  /\ UNCHANGED <<inputs, config, post_urls, searchArgs, scrapeArgs, raised, exitStatus>>

LaunchRaiseRetry(p) ==
  /\ pc[p] = "in_launch"
  /\ Emit(p, IF ProfileLocked(p) THEN "launch.locked" ELSE "launch.raise")
  /\ Goto(p, "launch")
  /\ UNCHANGED <<inputs, config, post_urls, searchArgs, scrapeArgs, raised, live, exitStatus>>

\* the launch raises (the profile is locked, or the browser cannot start);
\* the call is outside the try block, so nothing catches it
LaunchRaise(p) ==
  /\ pc[p] = "in_launch"
  /\ Uncaught(p, IF ProfileLocked(p) THEN "launch.locked" ELSE "launch.raise")

\* context.set_extra_http_headers(...)
SetHeaders(p) ==
  /\ pc[p] = "headers"
  /\ Emit(p, "headers.ok")
  /\ Goto(p, "page")
  /\ UNCHANGED <<inputs, config, post_urls, searchArgs, scrapeArgs, raised, live, exitStatus>>

SetHeadersRaise(p) ==
  /\ pc[p] = "headers"
  /\ Uncaught(p, "headers.raise")

\* page = context.pages[0] if context.pages else context.new_page()
GetPage(p) ==
  /\ pc[p] = "page"
  /\ Emit(p, "page.open")
  /\ Goto(p, "try")
  /\ UNCHANGED <<inputs, config, post_urls, searchArgs, scrapeArgs, raised, live, exitStatus>>

GetPageRaise(p) ==
  /\ pc[p] = "page"
  /\ Uncaught(p, "page.raise")

\* an exception raised inside the try block: on to the except clauses
Raise(p, exc, event) ==
  /\ raised' = [raised EXCEPT ![p] = exc]
  /\ Emit(p, event)
  /\ Goto(p, "except")
  /\ UNCHANGED <<inputs, config, post_urls, searchArgs, scrapeArgs, live, exitStatus>>

\* post_urls = search_linkedin_posts(page, search_query, config["max_results"], ...)
SearchCall(p) ==
  /\ pc[p] = "try"
  /\ searchArgs' = [searchArgs EXCEPT ![p] =
        [max_results |-> config[p],
         linkedin_subdomain |-> COUNTRIES[argv[p].country].linkedin_subdomain,
         email |-> environ[p].email,
         password |-> environ[p].password]]
  /\ Emit(p, "search.call")
  /\ Goto(p, "in_search")
  /\ UNCHANGED <<inputs, config, post_urls, scrapeArgs, raised, live, exitStatus>>

SearchReturn(p) ==
  /\ pc[p] = "in_search"
  /\ \E urls \in UrlLists(surface[p]) : post_urls' = [post_urls EXCEPT ![p] = urls]
  /\ Emit(p, "search.return")
  /\ Goto(p, "check_urls")
  /\ UNCHANGED <<inputs, config, searchArgs, scrapeArgs, raised, live, exitStatus>>

SearchRaise(p) ==
  /\ pc[p] = "in_search"
  /\ Raise(p, "Exception", "search.raise")

SearchInterrupt(p) ==
  /\ pc[p] = "in_search"
  /\ Raise(p, "KeyboardInterrupt", "search.interrupt")

CheckUrlsEmptyReturns(p) ==
  /\ pc[p] = "check_urls"
  /\ NoPostUrls(post_urls[p])
  /\ Emit(p, "no_urls")
  /\ Goto(p, "finally")
  /\ UNCHANGED <<inputs, config, post_urls, searchArgs, scrapeArgs, raised, live, exitStatus>>

\* "if not post_urls: ... sys.exit(1)": SystemExit is raised inside the try
CheckUrlsEmpty(p) ==
  /\ pc[p] = "check_urls"
  /\ NoPostUrls(post_urls[p])
  /\ Raise(p, "SystemExit", "no_urls")

ScrapeCallAfterSave(p) ==
  /\ pc[p] = "check_urls"
  /\ ~NoPostUrls(post_urls[p])
  /\ Emit(p, "save.call")
  /\ Goto(p, "in_save")
  /\ UNCHANGED <<inputs, config, post_urls, searchArgs, scrapeArgs, raised, live, exitStatus>>

\* scrape_linkedin_posts(page, post_urls, delay, filter_hiring_only=True)
ScrapeCall(p) ==
  /\ pc[p] = "check_urls"
  /\ ~NoPostUrls(post_urls[p])
  /\ scrapeArgs' = [scrapeArgs EXCEPT ![p] =
        [post_urls |-> post_urls[p], filter_hiring_only |-> TRUE]]
  /\ Emit(p, "scrape.call")
  /\ Goto(p, "in_scrape")
  /\ UNCHANGED <<inputs, config, post_urls, searchArgs, raised, live, exitStatus>>

ScrapeReturn(p) ==
  /\ pc[p] = "in_scrape"
  /\ Emit(p, "scrape.return")
  /\ Goto(p, "save")
  /\ UNCHANGED <<inputs, config, post_urls, searchArgs, scrapeArgs, raised, live, exitStatus>>

ScrapeRaise(p) ==
  /\ pc[p] = "in_scrape"
  /\ Raise(p, "Exception", "scrape.raise")

ScrapeInterrupt(p) ==
  /\ pc[p] = "in_scrape"
  /\ Raise(p, "KeyboardInterrupt", "scrape.interrupt")

\* save_session(context)
SaveCall(p) ==
  /\ pc[p] = "save"
  /\ Emit(p, "save.call")
  /\ Goto(p, "in_save")
  /\ UNCHANGED <<inputs, config, post_urls, searchArgs, scrapeArgs, raised, live, exitStatus>>

SaveReturn(p) ==
  /\ pc[p] = "in_save"
  /\ Emit(p, "save.return")
  /\ Goto(p, "finally")
  /\ UNCHANGED <<inputs, config, post_urls, searchArgs, scrapeArgs, raised, live, exitStatus>>

SaveRaise(p) ==
  /\ pc[p] = "in_save"
  /\ Raise(p, "Exception", "save.raise")

SaveInterrupt(p) ==
  /\ pc[p] = "in_save"
  /\ Raise(p, "KeyboardInterrupt", "save.interrupt")

\* "except KeyboardInterrupt:" prints and swallows the interrupt
ExceptKeyboardInterrupt(p) ==
  /\ pc[p] = "except"
  /\ raised[p] = "KeyboardInterrupt"
  /\ raised' = [raised EXCEPT ![p] = "none"]
  /\ Goto(p, "finally")
  /\ UNCHANGED <<inputs, config, post_urls, searchArgs, scrapeArgs, live, exitStatus, log>>

\* "except Exception as e:" prints the traceback and swallows the exception
ExceptException(p) ==
  /\ pc[p] = "except"
  /\ raised[p] = "Exception"
  /\ raised' = [raised EXCEPT ![p] = "none"]
  /\ Goto(p, "finally")
  /\ UNCHANGED <<inputs, config, post_urls, searchArgs, scrapeArgs, live, exitStatus, log>>

\* SystemExit is neither: no clause matches and it stays in flight
ExceptNoMatch(p) ==
  /\ pc[p] = "except"
  /\ raised[p] = "SystemExit"
  /\ Goto(p, "finally")
  /\ UNCHANGED <<inputs, config, post_urls, searchArgs, scrapeArgs, raised, live,
                 exitStatus, log>>

\* "finally: try: context.close()"
CloseCall(p) ==
  /\ pc[p] = "finally"
  /\ Emit(p, "close.call")
  /\ Goto(p, "in_close")
  /\ UNCHANGED <<inputs, config, post_urls, searchArgs, scrapeArgs, raised, live, exitStatus>>

CloseReturn(p) ==
  /\ pc[p] = "in_close"
  /\ live' = [live EXCEPT ![p] = FALSE]
  /\ Emit(p, "close.return")
  /\ Goto(p, "leave")
  /\ UNCHANGED <<inputs, config, post_urls, searchArgs, scrapeArgs, raised, exitStatus>>

CloseRaisePropagates(p) ==
  /\ pc[p] = "in_close"
  /\ raised' = [raised EXCEPT ![p] = "Exception"]
  /\ Emit(p, "close.raise")
  /\ Goto(p, "leave")
  /\ UNCHANGED <<inputs, config, post_urls, searchArgs, scrapeArgs, live, exitStatus>>

\* close() raises; "except: pass" swallows whatever it was
CloseRaise(p) ==
  /\ pc[p] = "in_close"
  /\ Emit(p, "close.raise")
  /\ Goto(p, "leave")
  /\ UNCHANGED <<inputs, config, post_urls, searchArgs, scrapeArgs, raised, live, exitStatus>>

\* the with-block is left (playwright stops, ending the context) and main()
\* returns, or the exception still in flight ends the process
Leave(p) ==
  /\ pc[p] = "leave"
  /\ live' = [live EXCEPT ![p] = FALSE]
  /\ exitStatus' = [exitStatus EXCEPT ![p] = ExitStatusOf(raised[p])]
  /\ Emit(p, "exit")
  /\ Goto(p, "exited")
  /\ UNCHANGED <<inputs, config, post_urls, searchArgs, scrapeArgs, raised>>

\* --------------------------------------------------------- specifications
NoArgs == [max_results |-> <<>>, country |-> "india"]
NoSearchArgs == [max_results |-> 0, linkedin_subdomain |-> "", email |-> "", password |-> ""]
NoScrapeArgs == [post_urls |-> <<>>, filter_hiring_only |-> FALSE]

\* what every run starts with, whatever its inputs
InitRun ==
  /\ config = [p \in Procs |-> 0]
  /\ post_urls = [p \in Procs |-> <<>>]
  /\ searchArgs = [p \in Procs |-> NoSearchArgs]
  /\ scrapeArgs = [p \in Procs |-> NoScrapeArgs]
  /\ raised = [p \in Procs |-> "none"]
  /\ live = [p \in Procs |-> FALSE]
  /\ exitStatus = [p \in Procs |-> -1]
  /\ log = [p \in Procs |-> <<>>]

\* one run of main(), with every command line, config.json and environment
Init ==
  /\ pc = [p \in Procs |-> IF p = 1 THEN "parse" ELSE "off"]
  /\ \E a \in [max_results : CliChoices, country : CountryKeys] :
        argv = [p \in Procs |-> IF p = 1 THEN a ELSE NoArgs]
  /\ \E e \in [email : EnvValues, password : EnvValues] :
        environ = [p \in Procs |-> IF p = 1 THEN e ELSE [email |-> None, password |-> None]]
  /\ \E f \in CfgChoices : configFile = [p \in Procs |-> IF p = 1 THEN f ELSE <<>>]
  /\ surface = [p \in Procs |-> IF p = 1 THEN AllUrls ELSE {}]
  /\ InitRun

\* two runs of main() started together, each on either profile, each with
\* its password set or unset
InitConc ==
  /\ pc = [p \in Procs |-> "parse"]
  /\ argv \in [Procs -> [max_results : {<<>>}, country : CountryKeys]]
  /\ environ \in [Procs -> [email : {"secret"}, password : {"secret", None}]]
  /\ configFile = [p \in Procs |-> <<>>]
  /\ surface = [p \in Procs |-> {"post-a"}]
  /\ InitRun

Step(p) ==
  \/ ParseArgs(p)
  \/ CredentialsMissing(p)
  \/ CredentialsPresent(p)
  \/ StartPlaywright(p)
  \/ StartPlaywrightRaise(p)
  \/ LaunchCall(p)
  \/ LaunchOk(p)
  \/ LaunchRaise(p)
  \/ SetHeaders(p)
  \/ SetHeadersRaise(p)
  \/ GetPage(p)
  \/ GetPageRaise(p)
  \/ SearchCall(p)
  \/ SearchReturn(p)
  \/ SearchRaise(p)
  \/ SearchInterrupt(p)
  \/ CheckUrlsEmpty(p)
  \/ ScrapeCall(p)
  \/ ScrapeReturn(p)
  \/ ScrapeRaise(p)
  \/ ScrapeInterrupt(p)
  \/ SaveCall(p)
  \/ SaveReturn(p)
  \/ SaveRaise(p)
  \/ SaveInterrupt(p)
  \/ ExceptKeyboardInterrupt(p)
  \/ ExceptException(p)
  \/ ExceptNoMatch(p)
  \/ CloseCall(p)
  \/ CloseReturn(p)
  \/ CloseRaise(p)
  \/ Leave(p)

Next == \E p \in Procs : Step(p)

Spec == Init /\ [][Next]_vars

SpecConc == InitConc /\ [][Next]_vars

\* ------------------------------------------------------------- properties
\* some e2 in the history comes after some e1
Follows(p, e1, e2) ==
  \E i \in 1..Len(log[p]) : \E j \in (i + 1)..Len(log[p]) :
     log[p][i] = e1 /\ log[p][j] = e2

Exited(p) == pc[p] = "exited"

\* calls of the three stages that have started and not yet ended
OpenCalls(p) ==
  (Count(p, "search.call") + Count(p, "scrape.call") + Count(p, "save.call"))
  - (Count(p, "search.return") + Count(p, "search.raise") + Count(p, "search.interrupt")
     + Count(p, "scrape.return") + Count(p, "scrape.raise") + Count(p, "scrape.interrupt")
     + Count(p, "save.return") + Count(p, "save.raise") + Count(p, "save.interrupt"))

\* C1: a run that was interrupted during search_linkedin_posts or
\* scrape_linkedin_posts has called save_session after the interrupt by the
\* time it exits.
C1_InterruptThenSave ==
  \A p \in Procs :
     Exited(p) =>
       /\ Has(p, "search.interrupt") => Follows(p, "search.interrupt", "save.call")
       /\ Has(p, "scrape.interrupt") => Follows(p, "scrape.interrupt", "save.call")

\* C2: a run whose email or password is unset or empty never starts
\* playwright, launches no context, opens no page, calls none of search,
\* scrape and save_session, and ends with the failure status.
C2_NoBrowsingWithoutCredentials ==
  \A p \in Procs :
     (environ[p].email \in {None, ""} \/ environ[p].password \in {None, ""}) =>
       /\ pc[p] \in {"off", "parse", "creds", "exited"}
       /\ ~Has(p, "playwright.start")
       /\ ~Has(p, "launch.call")
       /\ ~Has(p, "page.open")
       /\ ~Has(p, "search.call")
       /\ ~Has(p, "scrape.call")
       /\ ~Has(p, "save.call")
       /\ ~live[p]
       /\ Exited(p) => exitStatus[p] = ExitFailure

C2_Witness ==
  \E p \in Procs :
     /\ environ[p].email = "secret"
     /\ environ[p].password = ""
     /\ Exited(p)
     /\ Has(p, "credentials.missing")

\* C3: when an exception out of search_linkedin_posts or
\* scrape_linkedin_posts aborts the run, save_session is called after the
\* failure and before the context is closed.
C3_FailureThenSave ==
  \A p \in Procs :
     Has(p, "close.call") =>
       /\ Has(p, "search.raise") => Follows(p, "search.raise", "save.call")
       /\ Has(p, "scrape.raise") => Follows(p, "scrape.raise", "save.call")

\* C4: a run that hit a fatal condition (missing credentials, a failed
\* launch, an exception out of search or scrape) exits with a non-zero
\* status.
C4_FatalExitsNonZero ==
  \A p \in Procs :
     ( /\ Exited(p)
       /\ \/ Has(p, "credentials.missing")
          \/ Has(p, "launch.raise")
          \/ Has(p, "launch.locked")
          \/ Has(p, "search.raise")
          \/ Has(p, "scrape.raise") )
     => exitStatus[p] # 0

C6_MaxResultsAtLeastOne ==
  \A p \in Procs : Has(p, "search.call") => searchArgs[p].max_results >= 1

\* C7: the stages run serially and in order: scrape starts only after search
\* has returned, save_session only after scrape has returned, and at most
\* one of the three calls is active at any time.
C7_StagesSerialInOrder ==
  \A p \in Procs :
     /\ Precedes(p, "search.return", "scrape.call")
     /\ Precedes(p, "scrape.return", "save.call")
     /\ Precedes(p, "search.call", "search.return")
     /\ Precedes(p, "scrape.call", "scrape.return")
     /\ OpenCalls(p) \in {0, 1}

C7_Witness ==
  \E p \in Procs :
     /\ Has(p, "save.return")
     /\ Exited(p)

\* C8: of two runs on the same profile directory at most one holds a live
\* session; the run that finds the directory held fails at once: one launch
\* attempt, no search, scrape or save_session, failure status.
C8_SecondRunFailsFast ==
  /\ \A p \in Procs : \A q \in Procs \ {p} :
        (live[p] /\ live[q]) => SessionDir(p) # SessionDir(q)
  /\ \A p \in Procs :
        Has(p, "launch.locked") =>
          /\ Exited(p)
          /\ exitStatus[p] # 0
          /\ Count(p, "launch.call") = 1
          /\ ~Has(p, "launch.ok")
          /\ ~Has(p, "search.call")
          /\ ~Has(p, "scrape.call")
          /\ ~Has(p, "save.call")

C8_Witness ==
  \E p \in Procs : \E q \in Procs \ {p} :
     /\ argv[p].country = argv[q].country
     /\ Has(p, "launch.locked")
     /\ Exited(p)
     /\ live[q]
     /\ Has(q, "search.call")

\* C9 as stated: once the launch has succeeded, close() is attempted exactly
\* once before the process exits.
C9_CloseOnceAfterLaunch ==
  \A p \in Procs :
     (Exited(p) /\ Has(p, "launch.ok")) => Count(p, "close.call") = 1

\* C9 amended: once the try block has been entered (the launch succeeded,
\* the headers were set and the page was obtained, so search is called),
\* close() is attempted exactly once before the process exits, on every
\* path; whether close() returns or raises, the exit status is the one the
\* path decided: 1 after the empty-result sys.exit(1), 0 otherwise.
C9_CloseOnceAfterTry ==
  \A p \in Procs :
     /\ Count(p, "close.call") <= 1
     /\ Has(p, "close.call") => Has(p, "search.call")
     /\ (Exited(p) /\ Has(p, "search.call")) =>
          /\ Count(p, "close.call") = 1
          /\ Count(p, "close.return") + Count(p, "close.raise") = 1
          /\ exitStatus[p] = IF Has(p, "no_urls") THEN 1 ELSE 0

C9_Witness ==
  \E p \in Procs :
     /\ Exited(p)
     /\ Has(p, "scrape.interrupt")
     /\ Has(p, "close.raise")

\* C10: save_session is called at most once and only after search returned a
\* non-empty list and scrape returned without raising; scrape is never
\* called with an empty list, and always with filter_hiring_only=True and
\* the list the search returned.
C10_SaveOnlyAfterFullRun ==
  \A p \in Procs :
     /\ Count(p, "save.call") <= 1
     /\ Has(p, "save.call") =>
          /\ Has(p, "search.return")
          /\ Len(post_urls[p]) > 0
          /\ Precedes(p, "scrape.return", "save.call")
          /\ ~Has(p, "scrape.raise")
          /\ ~Has(p, "scrape.interrupt")
     /\ Has(p, "scrape.call") =>
          /\ Count(p, "scrape.call") = 1
          /\ Len(scrapeArgs[p].post_urls) > 0
          /\ scrapeArgs[p].filter_hiring_only = TRUE
          /\ scrapeArgs[p].post_urls = post_urls[p]

C10_Witness ==
  \E p \in Procs :
     /\ Has(p, "save.call")
     /\ post_urls[p] = <<"post-b", "post-a">>
     /\ scrapeArgs[p].post_urls = <<"post-b", "post-a">>

====
